---- MODULE Spec2Model ----
(***************************************************************************)
(* The contact-form backend of sogos-marketing: handleContact validates a  *)
(* submission, reconciles it against the Twenty CRM (company, person,      *)
(* opportunity) and sends the staff notification through Mailgun.          *)
(*                                                                         *)
(* Go strings that the code inspects character by character (name,        *)
(* company, email, phone, service) are sequences of one-character strings; *)
(* strings the code only compares with "" or passes on (identifiers,       *)
(* environment values, messages) are TLA+ strings.                         *)
(***************************************************************************)
EXTENDS Integers, Sequences, FiniteSets, TLC

VARIABLES
    env,        \* the process environment read by os.Getenv
    crm,        \* the records held by the Twenty CRM
    crm0,       \* the records the CRM held before the submissions arrived
    pc,         \* per submission: the handler's position
    req,        \* per submission: the HTTP request with its decoded ContactRequest
    names,      \* per submission: firstName / lastName of createTwentyLead
    result,     \* per submission: the LeadResult createTwentyLead is building
    lead,       \* per submission: leadResult of handleContact (a *LeadResult)
    crmErr,     \* per submission: crmErr of handleContact ("" is nil)
    calls,      \* per submission: the external calls made so far, in order
    mail,       \* per submission: the notification composed by sendNotificationEmail
    mailErr,    \* per submission: the error sendNotificationEmail returned ("" is nil)
    response,   \* per submission: the responses written, in order
    calc        \* a function of the program applied on its own: argument and value

vars == <<env, crm, crm0, pc, req, names, result, lead, crmErr, calls, mail, mailErr, response, calc>>

-----------------------------------------------------------------------------
(* Bounds of the model *)

\* the most records of each kind the CRM holds before the submissions arrive
MaxExisting == 2

\* the longest phone text normalizePhone is applied to on its own
MaxPhoneLen == 11

\* the longest name createTwentyLead's name parsing is applied to on its own
MaxNameLen == 4

\* the handlers (goroutines) that may serve a submission
Subs == {"s1", "s2"}

-----------------------------------------------------------------------------
(* Strings *)

Digits == {"0", "1", "2", "3", "4", "5", "6", "7", "8", "9"}

\* unicode.IsSpace on the characters the inputs use
Spaces == {" ", "\t", "\n", "\r"}

Name_JaneDoe == <<"J", "a", "n", "e", " ", "D", "o", "e">>
Name_Prince == <<"P", "r", "i", "n", "c", "e">>
Name_Blank == <<" ">>
Email_Jane == <<"j", "a", "n", "e", "@", "x", ".", "c", "o", "m">>
Email_JaneUpper == <<"J", "a", "n", "e", "@", "X", ".", "c", "o", "m">>
Email_MaryJane == <<"m", "a", "r", "y", ".", "j", "a", "n", "e", "@", "x", ".", "c", "o", "m">>
Email_Blank == <<" ">>
Company_Acme == <<"A", "c", "m", "e">>
Company_AcmeCorp == <<"A", "C", "M", "E", " ", "C", "o", "r", "p">>
Company_Other == <<"Z", "e", "n">>
Phone_Dashed == <<"5", "5", "5", "-", "1", "2", "3", "-", "4", "5", "6", "7">>
Phone_Normalized == <<"+", "1", "5", "5", "5", "1", "2", "3", "4", "5", "6", "7">>
Service_Consulting == <<"C", "o", "n", "s", "u", "l", "t", "i", "n", "g">>
Str_WebsiteInquiry == <<"W", "e", "b", "s", "i", "t", "e", " ", "I", "n", "q", "u", "i", "r", "y">>
Str_Dash == <<" ", "-", " ">>

LowerOf ==
    [A |-> "a", B |-> "b", C |-> "c", D |-> "d", E |-> "e", F |-> "f", G |-> "g",
     H |-> "h", I |-> "i", J |-> "j", K |-> "k", L |-> "l", M |-> "m", N |-> "n",
     O |-> "o", P |-> "p", Q |-> "q", R |-> "r", S |-> "s", T |-> "t", U |-> "u",
     V |-> "v", W |-> "w", X |-> "x", Y |-> "y", Z |-> "z"]

Lower(c) == IF c \in DOMAIN LowerOf THEN LowerOf[c] ELSE c

\* regexp `\D` replaced by "": the digits of s in order
RECURSIVE StripNonDigits(_)
StripNonDigits(s) ==
    IF s = <<>> THEN <<>>
    ELSE IF Head(s) \in Digits THEN <<Head(s)>> \o StripNonDigits(Tail(s))
    ELSE StripNonDigits(Tail(s))

\* the phone handed on as typed, as before normalizePhone was introduced
normalizePhoneRaw(phone) == phone

\* ten digits are not yet enough
normalizePhoneOffByOne(phone) ==
    IF phone = <<>> THEN <<>>
    ELSE LET digits == StripNonDigits(phone) IN
         IF Len(digits) <= 10 THEN <<>>
         ELSE <<"+">> \o digits

normalizePhone(phone) ==
    IF phone = <<>> THEN <<>>
    ELSE LET digits == StripNonDigits(phone) IN
         IF Len(digits) < 10 THEN <<>>
         ELSE IF Len(digits) = 10 THEN <<"+", "1">> \o digits
         ELSE IF Len(digits) = 11 /\ digits[1] = "1" THEN <<"+">> \o digits
         ELSE <<"+">> \o digits

RECURSIVE TrimLeft(_)
TrimLeft(s) == IF s # <<>> /\ Head(s) \in Spaces THEN TrimLeft(Tail(s)) ELSE s

RECURSIVE TrimRight(_)
TrimRight(s) ==
    IF s # <<>> /\ s[Len(s)] \in Spaces THEN TrimRight(SubSeq(s, 1, Len(s) - 1)) ELSE s

\* strings.TrimSpace
TrimSpace(s) == TrimRight(TrimLeft(s))

\* strings.SplitN(s, " ", 2): cut at the first " ", or the whole of s
SplitN2(s) ==
    LET at == {i \in 1..Len(s) : s[i] = " "} IN
    IF at = {} THEN <<s>>
    ELSE LET i == CHOOSE j \in at : \A k \in at : j <= k IN
         <<SubSeq(s, 1, i - 1), SubSeq(s, i + 1, Len(s))>>

\* the ilike comparison the CRM applies to a filter: "%" matches any run of
\* characters, "_" any one character, letters match without regard to case
RECURSIVE ILike(_, _)
ILike(text, pattern) ==
    IF pattern = <<>> THEN text = <<>>
    ELSE IF Head(pattern) = "%"
         THEN ILike(text, Tail(pattern)) \/ (text # <<>> /\ ILike(Tail(text), pattern))
    ELSE /\ text # <<>>
         /\ (Head(pattern) = "_" \/ Lower(Head(pattern)) = Lower(Head(text)))
         /\ ILike(Tail(text), Tail(pattern))

\* the records of rows, in the CRM's order, that satisfy the filter
RECURSIVE Matching(_, _, _)
Matching(rows, field, pattern) ==
    IF rows = <<>> THEN <<>>
    ELSE (IF ILike(Head(rows)[field], pattern) THEN <<Head(rows)>> ELSE <<>>)
         \o Matching(Tail(rows), field, pattern)

-----------------------------------------------------------------------------
(* The values of the program *)

\* *LeadResult: nil, or a pointer to the four fields
NilLead == [nil |-> TRUE, PersonID |-> "", CompanyID |-> "", OpportunityID |-> "", IsNewPerson |-> FALSE]

\* &LeadResult{}
EmptyLead == [nil |-> FALSE, PersonID |-> "", CompanyID |-> "", OpportunityID |-> "", IsNewPerson |-> FALSE]

NoNames == [firstName |-> <<>>, lastName |-> <<>>]

NoMail == [composed |-> FALSE]

\* a CRM that holds no records
EmptyCRM == [companies |-> <<>>, people |-> <<>>, opportunities |-> <<>>]

\* no function applied on its own
NoCalc == [fn |-> "none", arg |-> <<>>, done |-> FALSE, out |-> <<>>]

\* the identifiers the CRM hands out, by the position of the record
CompanyIds == <<"c1", "c2", "c3", "c4", "c5", "c6">>
PersonIds == <<"p1", "p2", "p3", "p4", "p5", "p6">>
OpportunityIds == <<"o1", "o2", "o3", "o4", "o5", "o6">>

CrmOps == {"FindCompany", "CreateCompany", "FindPerson", "CreatePerson", "CreateOpportunity"}

\* what a search call can come back with: executeTwentyGraphQL returns an error
\* (transport, status, body, errors list); or it returns a response whose data
\* the caller cannot decode; or one whose data decodes
SearchOutcomes == {"error", "undecodable", "ok"}

\* a create call can also come back with data that decodes and holds no id
CreateOutcomes == {"error", "undecodable", "noid", "ok"}

SendOutcomes == {"error", "ok"}

\* executeTwentyGraphQL returns (&gqlResp, nil)
Accepted(o) == o # "error"

\* json.Unmarshal(resp.Data, &result) returns nil
Decoded(o) == o \in {"noid", "ok"}

-----------------------------------------------------------------------------
(* The inputs *)

\* the environment with every variable of the deployment set
FullEnv ==
    [TWENTY_API_URL |-> "https://crm.example", TWENTY_API_KEY |-> "twenty-key",
     MAILGUN_API_KEY |-> "mg-key", MAILGUN_DOMAIN |-> "mg.example", CONTACT_EMAIL |-> ""]

\* the full environment, and each one that lacks one required variable
Envs ==
    {FullEnv} \cup
    {[FullEnv EXCEPT ![k] = ""] :
        k \in {"TWENTY_API_URL", "TWENTY_API_KEY", "MAILGUN_API_KEY", "MAILGUN_DOMAIN"}}

NoRequest ==
    [method |-> "", bodyOk |-> FALSE, Name |-> <<>>, Company |-> <<>>, Email |-> <<>>,
     Phone |-> <<>>, Message |-> "", Service |-> <<>>]

Submission(n, c, e, p, v) ==
    [method |-> "POST", bodyOk |-> TRUE, Name |-> n, Company |-> c, Email |-> e,
     Phone |-> p, Message |-> "hi", Service |-> v]

\* the decoded submissions: complete ones with and without a company, a
\* phone and a service, and ones whose name or email is empty or blank
Submissions ==
    {Submission(n, c, Email_Jane, ps[1], ps[2]) :
        n \in {Name_JaneDoe, Name_Prince},
        c \in {<<>>, Company_Acme},
        ps \in {<<Phone_Dashed, <<>>>>, <<<<>>, Service_Consulting>>}}
    \cup
    {Submission(n, Company_Acme, e, Phone_Dashed, <<>>) :
        n \in {<<>>, Name_Blank, Name_JaneDoe},
        e \in {<<>>, Email_Blank, Email_Jane}}

\* a request with another method, and one whose body does not decode
OtherRequests ==
    {[NoRequest EXCEPT !.method = "GET"], [NoRequest EXCEPT !.method = "POST"]}

Requests == Submissions \cup OtherRequests

InitialCompany(i, n) == [id |-> CompanyIds[i], name |-> n]

InitialPerson(i, e) ==
    [id |-> PersonIds[i], firstName |-> <<"X">>, lastName |-> <<>>, email |-> e,
     phone |-> <<>>, companyId |-> ""]

Seqs(S, k) == [1..k -> S]

\* every CRM content of at most MaxExisting companies and people together
InitialCRMs ==
    {[companies |-> [i \in DOMAIN cn |-> InitialCompany(i, cn[i])],
      people |-> [i \in DOMAIN pe |-> InitialPerson(i, pe[i])],
      opportunities |-> <<>>] :
        <<cn, pe>> \in UNION {Seqs({Company_AcmeCorp, Company_Other}, nc)
                                \X Seqs({Email_JaneUpper, Email_MaryJane}, np) :
                              <<nc, np>> \in {x \in (0..MaxExisting) \X (0..MaxExisting) :
                                                x[1] + x[2] <= MaxExisting}}}

-----------------------------------------------------------------------------
(* The state after construction: the requests that have arrived, none served *)

InitFor(active) ==
    /\ env \in Envs
    /\ crm \in InitialCRMs
    /\ crm0 = crm
    /\ req \in {r \in [Subs -> Requests \cup {NoRequest}] :
                    \A s \in Subs : (r[s] # NoRequest) <=> (s \in active)}
    /\ pc = [s \in Subs |-> IF s \in active THEN "recv" ELSE "idle"]
    /\ names = [s \in Subs |-> NoNames]
    /\ result = [s \in Subs |-> NilLead]
    /\ lead = [s \in Subs |-> NilLead]
    /\ crmErr = [s \in Subs |-> ""]
    /\ calls = [s \in Subs |-> <<>>]
    /\ mail = [s \in Subs |-> NoMail]
    /\ mailErr = [s \in Subs |-> ""]
    /\ response = [s \in Subs |-> <<>>]
    /\ calc = NoCalc

\* one submission in flight
Init == InitFor({"s1"})

-----------------------------------------------------------------------------
(* handleContact *)

\* sendJSON(w, status, Response{Success, Message}); http.Error writes no JSON
JSONResponse(status, success, message) ==
    [status |-> status, json |-> TRUE, Success |-> success, Message |-> message]

TextResponse(status, message) ==
    [status |-> status, json |-> FALSE, Success |-> FALSE, Message |-> message]

\* only the name is tested
MissingRequiredNameOnly(r) == r.Name = <<>>

\* the required-fields test of handleContact
MissingRequired(r) == r.Name = <<>> \/ r.Email = <<>>

\* handleContact up to the call of createTwentyLead
HandleContact(s) ==
    /\ pc[s] = "recv"
    /\ LET r == req[s] IN
       IF r.method # "POST"
       THEN /\ response' = [response EXCEPT ![s] = Append(@, TextResponse(405, "Method not allowed"))]
            /\ pc' = [pc EXCEPT ![s] = "done"]
       ELSE IF ~r.bodyOk
       THEN /\ response' = [response EXCEPT ![s] = Append(@, JSONResponse(400, FALSE, "Invalid request body"))]
            /\ pc' = [pc EXCEPT ![s] = "done"]
       ELSE IF MissingRequired(r)
       THEN /\ response' = [response EXCEPT ![s] = Append(@, JSONResponse(400, FALSE, "Name and email are required"))]
            /\ pc' = [pc EXCEPT ![s] = "done"]
       ELSE /\ pc' = [pc EXCEPT ![s] = "lead"]
            /\ UNCHANGED response
    /\ UNCHANGED <<calc, env, crm, crm0, req, names, result, lead, crmErr, calls, mail, mailErr>>

\* a failed reconciliation goes straight to the response
LeadFailedSkipsEmail(s, err) ==
    /\ lead' = [lead EXCEPT ![s] = NilLead]
    /\ crmErr' = [crmErr EXCEPT ![s] = err]
    /\ pc' = [pc EXCEPT ![s] = "respond"]

\* the handler returns on a reconciliation error without writing a response
LeadFailedNoResponse(s, err) ==
    /\ lead' = [lead EXCEPT ![s] = NilLead]
    /\ crmErr' = [crmErr EXCEPT ![s] = err]
    /\ pc' = [pc EXCEPT ![s] = "done"]

\* createTwentyLead returns (nil, err) to handleContact
LeadFailed(s, err) ==
    /\ lead' = [lead EXCEPT ![s] = NilLead]
    /\ crmErr' = [crmErr EXCEPT ![s] = err]
    /\ pc' = [pc EXCEPT ![s] = "email"]

\* createTwentyLead returns (result, nil) to handleContact
LeadDone(s, res) ==
    /\ lead' = [lead EXCEPT ![s] = res]
    /\ crmErr' = [crmErr EXCEPT ![s] = ""]
    /\ pc' = [pc EXCEPT ![s] = "email"]

\* the configuration test of createTwentyLead
ConfigMissing(e) == e.TWENTY_API_URL = "" \/ e.TWENTY_API_KEY = ""

\* firstName, lastName of createTwentyLead
ParseName(name) ==
    LET nameParts == SplitN2(TrimSpace(name)) IN
    [firstName |-> nameParts[1],
     lastName |-> IF Len(nameParts) > 1 THEN nameParts[2] ELSE <<>>]

\* createTwentyLead up to its first CRM call: configuration, name parts
CreateTwentyLead(s) ==
    /\ pc[s] = "lead"
    /\ IF ConfigMissing(env)
       THEN /\ LeadFailed(s, "twenty CRM configuration missing")
            /\ UNCHANGED <<names, result>>
       ELSE /\ names' = [names EXCEPT ![s] = ParseName(req[s].Name)]
            /\ result' = [result EXCEPT ![s] = EmptyLead]
            /\ pc' = [pc EXCEPT ![s] =
                            IF req[s].Company # <<>> THEN "companySearch" ELSE "personSearch"]
            /\ UNCHANGED <<lead, crmErr>>
    /\ UNCHANGED <<calc, env, crm, crm0, req, calls, mail, mailErr, response>>

-----------------------------------------------------------------------------
(* The CRM calls of createTwentyLead *)

\* one executeTwentyGraphQL or Mailgun call, as the far side saw it
\* (edges: the ids of the edges a search answered with; id: the id a create answered with)
Call(op, input, outcome, edges, id) ==
    [op |-> op, input |-> input, outcome |-> outcome, edges |-> edges, id |-> id]

Ids(edges) == [i \in DOMAIN edges |-> edges[i].id]

\* the edges a search response carries to the caller
Edges(rows, field, pattern, o) ==
    IF Accepted(o) /\ Decoded(o) THEN Matching(rows, field, pattern) ELSE <<>>

\* what a create call returns: (id, nil), or ("", err)
CreateErr(o) ==
    IF ~Accepted(o) THEN "execute failed"
    ELSE IF ~Decoded(o) THEN "failed to parse response"
    ELSE ""

CreateID(o, fresh) == IF o = "ok" THEN fresh ELSE ""

\* a company failure aborts createTwentyLead
CompanyResolvedFatal(s, companyID, err) ==
    IF err # ""
    THEN /\ LeadFailed(s, "failed to find/create company")
         /\ UNCHANGED result
    ELSE /\ result' = [result EXCEPT ![s].CompanyID = companyID]
         /\ pc' = [pc EXCEPT ![s] = "personSearch"]
         /\ UNCHANGED <<lead, crmErr>>

\* createTwentyLead after findOrCreateCompany returned (companyID, err)
CompanyResolved(s, companyID, err) ==
    /\ result' = [result EXCEPT ![s].CompanyID = IF err # "" THEN @ ELSE companyID]
    /\ pc' = [pc EXCEPT ![s] = "personSearch"]
    /\ UNCHANGED <<lead, crmErr>>

\* a person failure is logged and absorbed, as a company failure is
PersonResolvedAbsorbs(s, personID, isNew, err) ==
    /\ result' = [result EXCEPT ![s].PersonID = IF err # "" THEN @ ELSE personID,
                                ![s].IsNewPerson = IF err # "" THEN @ ELSE isNew]
    /\ pc' = [pc EXCEPT ![s] = "opportunity"]
    /\ UNCHANGED <<lead, crmErr>>

\* the company is looked up again once the person is known
PersonResolvedThenCompany(s, personID, isNew, err) ==
    IF err # ""
    THEN /\ LeadFailed(s, "failed to find/create person")
         /\ UNCHANGED result
    ELSE /\ result' = [result EXCEPT ![s].PersonID = personID, ![s].IsNewPerson = isNew]
         /\ pc' = [pc EXCEPT ![s] =
                    IF req[s].Company # <<>> /\ result[s].CompanyID = ""
                    THEN "companySearch" ELSE "opportunity"]
         /\ UNCHANGED <<lead, crmErr>>

\* createTwentyLead after findOrCreatePerson returned (personID, isNew, err)
PersonResolved(s, personID, isNew, err) ==
    IF err # ""
    THEN /\ LeadFailed(s, "failed to find/create person")
         /\ UNCHANGED result
    ELSE /\ result' = [result EXCEPT ![s].PersonID = personID, ![s].IsNewPerson = isNew]
         /\ pc' = [pc EXCEPT ![s] = "opportunity"]
         /\ UNCHANGED <<lead, crmErr>>

\* a failed opportunity call is made again
OpportunityResolvedRetries(s, opportunityID, err) ==
    IF err # ""
    THEN /\ pc' = [pc EXCEPT ![s] = IF Len(calls[s]) < 8 THEN "opportunity" ELSE "email"]
         /\ UNCHANGED <<result, lead, crmErr>>
    ELSE /\ result' = [result EXCEPT ![s].OpportunityID = opportunityID]
         /\ LeadDone(s, [result[s] EXCEPT !.OpportunityID = opportunityID])

\* an opportunity failure returns the partial result along with the error
OpportunityResolvedPartial(s, opportunityID, err) ==
    /\ result' = [result EXCEPT ![s].OpportunityID = opportunityID]
    /\ lead' = [lead EXCEPT ![s] = [result[s] EXCEPT !.OpportunityID = opportunityID]]
    /\ crmErr' = [crmErr EXCEPT ![s] = IF err # "" THEN "failed to create opportunity" ELSE ""]
    /\ pc' = [pc EXCEPT ![s] = "email"]

\* createTwentyLead after createTwentyOpportunity returned (opportunityID, err)
OpportunityResolved(s, opportunityID, err) ==
    IF err # ""
    THEN /\ LeadFailed(s, "failed to create opportunity")
         /\ UNCHANGED result
    ELSE /\ result' = [result EXCEPT ![s].OpportunityID = opportunityID]
         /\ LeadDone(s, [result[s] EXCEPT !.OpportunityID = opportunityID])

\* the filter of the company search
CompanyFilter(name) == <<"%">> \o name \o <<"%">>

\* the person filter wrapped in wildcards as the company filter is
PersonFilterWrapped(email) == <<"%">> \o email \o <<"%">>

\* the filter of the person search
PersonFilter(email) == email

\* the edges of the search answer are not looked at
NeverFound(edges) == FALSE

\* a search answer that ends the find-or-create: decoded, with an edge
Found(edges) == Len(edges) > 0

\* the last edge instead of the first
LastID(edges) == edges[Len(edges)].id

\* Edges[0].Node.ID
FirstID(edges) == edges[1].id

\* a search that failed ends the find-or-create with an error
SearchMissedAborts(s, o, create) ==
    IF o # "ok"
    THEN /\ LeadFailed(s, "search failed")
         /\ UNCHANGED result
    ELSE /\ pc' = [pc EXCEPT ![s] = create]
         /\ UNCHANGED <<result, lead, crmErr>>

\* a search that came back with outcome o and nothing found: control falls
\* out of "if err == nil { ... }" to the create call
SearchMissed(s, o, create) ==
    /\ pc' = [pc EXCEPT ![s] = create]
    /\ UNCHANGED <<result, lead, crmErr>>

\* findOrCreateCompany: the search call
CompanySearch(s) ==
    /\ pc[s] = "companySearch"
    /\ \E o \in SearchOutcomes :
        LET filter == CompanyFilter(req[s].Company)
            edges == Edges(crm.companies, "name", filter, o)
        IN  /\ calls' = [calls EXCEPT ![s] = Append(@,
                            Call("FindCompany", [filter |-> filter], o, Ids(edges), ""))]
            /\ IF Found(edges)
               THEN CompanyResolved(s, FirstID(edges), "")
               ELSE SearchMissed(s, o, "companyCreate")
    /\ UNCHANGED <<calc, env, crm, crm0, req, names, mail, mailErr, response>>

\* findOrCreateCompany: the create call
CompanyCreate(s) ==
    /\ pc[s] = "companyCreate"
    /\ \E o \in CreateOutcomes :
        LET fresh == CompanyIds[Len(crm.companies) + 1]
            input == [name |-> req[s].Company]
        IN  /\ calls' = [calls EXCEPT ![s] = Append(@,
                            Call("CreateCompany", input, o, <<>>, CreateID(o, fresh)))]
            /\ crm' = IF Accepted(o)
                      THEN [crm EXCEPT !.companies = Append(@, [id |-> fresh, name |-> input.name])]
                      ELSE crm
            /\ CompanyResolved(s, CreateID(o, fresh), CreateErr(o))
    /\ UNCHANGED <<calc, env, crm0, req, names, mail, mailErr, response>>

\* the matched person is linked to the company of the submission
PersonSearchUpdates(s) ==
    /\ pc[s] = "personSearch"
    /\ \E o \in SearchOutcomes :
        LET filter == PersonFilter(req[s].Email)
            edges == Edges(crm.people, "email", filter, o)
        IN  /\ calls' = [calls EXCEPT ![s] = Append(@,
                            Call("FindPerson", [filter |-> filter], o, Ids(edges), ""))]
            /\ crm' = IF Found(edges)
                      THEN [crm EXCEPT !.people =
                                [i \in DOMAIN @ |->
                                    IF @[i].id = FirstID(edges)
                                    THEN [@[i] EXCEPT !.companyId = result[s].CompanyID]
                                    ELSE @[i]]]
                      ELSE crm
            /\ IF Found(edges)
               THEN PersonResolved(s, FirstID(edges), FALSE, "")
               ELSE SearchMissed(s, o, "personCreate")
    /\ UNCHANGED <<calc, env, crm0, req, names, mail, mailErr, response>>

\* findOrCreatePerson: the search call
PersonSearch(s) ==
    /\ pc[s] = "personSearch"
    /\ \E o \in SearchOutcomes :
        LET filter == PersonFilter(req[s].Email)
            edges == Edges(crm.people, "email", filter, o)
        IN  /\ calls' = [calls EXCEPT ![s] = Append(@,
                            Call("FindPerson", [filter |-> filter], o, Ids(edges), ""))]
            /\ IF Found(edges)
               THEN PersonResolved(s, FirstID(edges), FALSE, "")
               ELSE SearchMissed(s, o, "personCreate")
    /\ UNCHANGED <<calc, env, crm, crm0, req, names, mail, mailErr, response>>

\* the person mutation without the company link
PersonInputNoCompany(firstName, lastName, email, phone, companyID) ==
    [firstName |-> firstName, lastName |-> lastName, primaryEmail |-> email,
     primaryPhoneNumber |-> normalizePhone(phone), companyId |-> ""]

\* the input of the person mutation; an empty phone or companyId is a key left out
PersonInput(firstName, lastName, email, phone, companyID) ==
    [firstName |-> firstName, lastName |-> lastName, primaryEmail |-> email,
     primaryPhoneNumber |-> normalizePhone(phone), companyId |-> companyID]

\* findOrCreatePerson: the create call
PersonCreate(s) ==
    /\ pc[s] = "personCreate"
    /\ \E o \in CreateOutcomes :
        LET fresh == PersonIds[Len(crm.people) + 1]
            input == PersonInput(names[s].firstName, names[s].lastName, req[s].Email,
                                 req[s].Phone, result[s].CompanyID)
        IN  /\ calls' = [calls EXCEPT ![s] = Append(@,
                            Call("CreatePerson", input, o, <<>>, CreateID(o, fresh)))]
            /\ crm' = IF Accepted(o)
                      THEN [crm EXCEPT !.people = Append(@,
                                [id |-> fresh, firstName |-> input.firstName,
                                 lastName |-> input.lastName, email |-> input.primaryEmail,
                                 phone |-> input.primaryPhoneNumber,
                                 companyId |-> input.companyId])]
                      ELSE crm
            /\ PersonResolved(s, CreateID(o, fresh), TRUE, CreateErr(o))
    /\ UNCHANGED <<calc, env, crm0, req, names, mail, mailErr, response>>

\* the name without the default for an empty service
OpportunityNameNoDefault(name, service) == name \o Str_Dash \o service

\* opportunityName of createTwentyLead
OpportunityName(name, service) ==
    IF service = <<>> THEN name \o Str_Dash \o Str_WebsiteInquiry
    ELSE name \o Str_Dash \o service

\* the input of the opportunity mutation; an empty id is a key left out
OpportunityInput(name, personID, companyID) ==
    [name |-> name, stage |-> "NEW", pointOfContactId |-> personID, companyId |-> companyID]

\* a failed opportunity call takes back the person this submission created
CreateOpportunityRollsBack(s) ==
    /\ pc[s] = "opportunity"
    /\ \E o \in CreateOutcomes :
        LET fresh == OpportunityIds[Len(crm.opportunities) + 1]
            input == OpportunityInput(OpportunityName(req[s].Name, req[s].Service),
                                      result[s].PersonID, result[s].CompanyID)
        IN  /\ calls' = [calls EXCEPT ![s] = Append(@,
                            Call("CreateOpportunity", input, o, <<>>, CreateID(o, fresh)))]
            /\ crm' = IF Accepted(o)
                      THEN [crm EXCEPT !.opportunities = Append(@, [id |-> fresh] @@ input)]
                      ELSE [crm EXCEPT !.people =
                                SelectSeq(@, LAMBDA r : ~(result[s].IsNewPerson
                                                          /\ r.id = result[s].PersonID))]
            /\ OpportunityResolved(s, CreateID(o, fresh), CreateErr(o))
    /\ UNCHANGED <<calc, env, crm0, req, names, mail, mailErr, response>>

\* createTwentyOpportunity
CreateOpportunity(s) ==
    /\ pc[s] = "opportunity"
    /\ \E o \in CreateOutcomes :
        LET fresh == OpportunityIds[Len(crm.opportunities) + 1]
            input == OpportunityInput(OpportunityName(req[s].Name, req[s].Service),
                                      result[s].PersonID, result[s].CompanyID)
        IN  /\ calls' = [calls EXCEPT ![s] = Append(@,
                            Call("CreateOpportunity", input, o, <<>>, CreateID(o, fresh)))]
            /\ crm' = IF Accepted(o)
                      THEN [crm EXCEPT !.opportunities = Append(@, [id |-> fresh] @@ input)]
                      ELSE crm
            /\ OpportunityResolved(s, CreateID(o, fresh), CreateErr(o))
    /\ UNCHANGED <<calc, env, crm0, req, names, mail, mailErr, response>>

-----------------------------------------------------------------------------
(* sendNotificationEmail and the response *)

\* the configuration test of sendNotificationEmail
MailConfigMissing(e) == e.MAILGUN_API_KEY = "" \/ e.MAILGUN_DOMAIN = ""

Recipient(e) == IF e.CONTACT_EMAIL = "" THEN "john@sogos.io" ELSE e.CONTACT_EMAIL

\* crmLink: the pieces Sprintf joins, or the empty string
CrmLink(l, crmURL) ==
    IF ~l.nil /\ l.OpportunityID # ""
    THEN <<"\n\nView in CRM: ", crmURL, "/objects/opportunities/", l.OpportunityID>>
    ELSE <<>>

\* the status line the wrong way round
PersonStatusInverted(l) ==
    IF ~l.nil /\ ~l.IsNewPerson THEN "New contact" ELSE "Existing contact (returning lead)"

\* personStatus
PersonStatus(l) ==
    IF ~l.nil /\ ~l.IsNewPerson THEN "Existing contact (returning lead)" ELSE "New contact"

\* the message handed to mg.Send
Notification(r, l, e) ==
    [composed |-> TRUE,
     from |-> <<"Sogos CRM <noreply@", e.MAILGUN_DOMAIN, ">">>,
     subject |-> <<"New Lead: ", r.Name>>,
     to |-> Recipient(e),
     replyTo |-> r.Email,
     Name |-> r.Name, Company |-> r.Company, Email |-> r.Email, Phone |-> r.Phone,
     Service |-> r.Service, Status |-> PersonStatus(l), Message |-> r.Message,
     crmLink |-> CrmLink(l, e.TWENTY_API_URL)]

\* sendNotificationEmail(req, leadResult)
SendNotificationEmail(s) ==
    /\ pc[s] = "email"
    /\ IF MailConfigMissing(env)
       THEN /\ mailErr' = [mailErr EXCEPT ![s] = "mailgun configuration missing"]
            /\ UNCHANGED <<mail, calls>>
       ELSE \E o \in SendOutcomes :
            LET m == Notification(req[s], lead[s], env) IN
            /\ mail' = [mail EXCEPT ![s] = m]
            /\ calls' = [calls EXCEPT ![s] = Append(@, Call("MailgunSend", m, o, <<>>, ""))]
            /\ mailErr' = [mailErr EXCEPT ![s] = IF o = "ok" THEN "" ELSE "send failed"]
    /\ pc' = [pc EXCEPT ![s] = "respond"]
    /\ UNCHANGED <<calc, env, crm, crm0, req, names, result, lead, crmErr, response>>

\* the response handleContact writes once sendNotificationEmail has returned err
FinalResponse(err) ==
    IF err # ""
    THEN JSONResponse(500, FALSE, "Failed to send message. Please try again later.")
    ELSE JSONResponse(200, TRUE, "Thank you for reaching out. We'll be in touch within 24 hours.")

Respond(s) ==
    /\ pc[s] = "respond"
    /\ response' = [response EXCEPT ![s] = Append(@, FinalResponse(mailErr[s]))]
    /\ pc' = [pc EXCEPT ![s] = "done"]
    /\ UNCHANGED <<calc, env, crm, crm0, req, names, result, lead, crmErr, calls, mail, mailErr>>

-----------------------------------------------------------------------------

Next ==
    \E s \in Subs :
        \/ HandleContact(s)
        \/ CreateTwentyLead(s)
        \/ CompanySearch(s)
        \/ CompanyCreate(s)
        \/ PersonSearch(s)
        \/ PersonCreate(s)
        \/ CreateOpportunity(s)
        \/ SendNotificationEmail(s)
        \/ Respond(s)

Spec == Init /\ [][Next]_vars

\* two submissions in flight at once (net/http serves each request on its
\* own goroutine), both for the same person and company, against a deployment
\* with every variable set and a CRM that holds nothing yet
ConcurrentSubmissions ==
    {r \in Submissions : /\ r.Name = Name_JaneDoe /\ r.Email = Email_Jane
                          /\ r.Phone = Phone_Dashed}

InitConc ==
    /\ env = FullEnv
    /\ crm = EmptyCRM
    /\ crm0 = crm
    /\ req \in {r \in [Subs -> ConcurrentSubmissions] : \A s, u \in Subs : r[s] = r[u]}
    /\ pc = [s \in Subs |-> "recv"]
    /\ names = [s \in Subs |-> NoNames]
    /\ result = [s \in Subs |-> NilLead]
    /\ lead = [s \in Subs |-> NilLead]
    /\ crmErr = [s \in Subs |-> ""]
    /\ calls = [s \in Subs |-> <<>>]
    /\ mail = [s \in Subs |-> NoMail]
    /\ mailErr = [s \in Subs |-> ""]
    /\ response = [s \in Subs |-> <<>>]
    /\ calc = NoCalc

\* the call this step adds to the log of s came back with what it asked for
Answered(s) == calls'[s][Len(calls'[s])].outcome = "ok"

\* the steps of Next, with a CRM that answers the company calls; the person
\* calls, the opportunity call and the email send come back in every way
NextConc ==
    \E s \in Subs :
        \/ HandleContact(s)
        \/ CreateTwentyLead(s)
        \/ CompanySearch(s) /\ Answered(s)
        \/ CompanyCreate(s) /\ Answered(s)
        \/ PersonSearch(s)
        \/ PersonCreate(s)
        \/ CreateOpportunity(s)
        \/ SendNotificationEmail(s)
        \/ Respond(s)

SpecConc == InitConc /\ [][NextConc]_vars

\* the next step of the handler of submission s
Step(s) ==
    \/ HandleContact(s)
    \/ CreateTwentyLead(s)
    \/ CompanySearch(s)
    \/ CompanyCreate(s)
    \/ PersonSearch(s)
    \/ PersonCreate(s)
    \/ CreateOpportunity(s)
    \/ SendNotificationEmail(s)
    \/ Respond(s)

\* the CRM contents with as many companies as people
LiveCRMs == {c \in InitialCRMs : Len(c.companies) = Len(c.people)}

InitLive == InitFor({"s1"}) /\ crm \in LiveCRMs

\* the handler's goroutine keeps running, and every call it makes returns:
\* each is made under context.WithTimeout of 30 seconds, so the step that
\* makes the call and takes its answer is eventually taken
SpecLive == InitLive /\ [][Next]_vars /\ \A s \in Subs : WF_vars(Step(s))

-----------------------------------------------------------------------------
(* normalizePhone and the name parsing, each applied on its own to every    *)
(* text of a bounded length                                                 *)

\* the texts of at most n characters of S
Texts(S, n) == UNION {[1..k -> S] : k \in 0..n}

\* phone texts: two digits, one of them the leading "1", and a separator
PhoneInputs == Texts({"1", "2", "-"}, MaxPhoneLen)

\* names that pass the required-fields test: letters, a space and a tab
NameInputs == Texts({"J", "D", " ", "\t"}, MaxNameLen) \ {<<>>}

InitFn ==
    /\ env = FullEnv
    /\ crm = EmptyCRM
    /\ crm0 = crm
    /\ req = [s \in Subs |-> NoRequest]
    /\ pc = [s \in Subs |-> "idle"]
    /\ names = [s \in Subs |-> NoNames]
    /\ result = [s \in Subs |-> NilLead]
    /\ lead = [s \in Subs |-> NilLead]
    /\ crmErr = [s \in Subs |-> ""]
    /\ calls = [s \in Subs |-> <<>>]
    /\ mail = [s \in Subs |-> NoMail]
    /\ mailErr = [s \in Subs |-> ""]
    /\ response = [s \in Subs |-> <<>>]
    /\ calc \in {[NoCalc EXCEPT !.fn = "normalizePhone", !.arg = p] : p \in PhoneInputs}
                \cup {[NoCalc EXCEPT !.fn = "parseName", !.arg = n] : n \in NameInputs}

\* normalizedPhone := normalizePhone(phone)
ApplyNormalizePhone ==
    /\ calc.fn = "normalizePhone" /\ ~calc.done
    /\ calc' = [calc EXCEPT !.done = TRUE, !.out = normalizePhone(calc.arg)]
    /\ UNCHANGED <<env, crm, crm0, pc, req, names, result, lead, crmErr, calls, mail, mailErr, response>>

\* the name parts of createTwentyLead
ApplyParseName ==
    /\ calc.fn = "parseName" /\ ~calc.done
    /\ calc' = [calc EXCEPT !.done = TRUE, !.out = ParseName(calc.arg)]
    /\ UNCHANGED <<env, crm, crm0, pc, req, names, result, lead, crmErr, calls, mail, mailErr, response>>

NextFn == ApplyNormalizePhone \/ ApplyParseName

SpecFn == InitFn /\ [][NextFn]_vars

-----------------------------------------------------------------------------
(* Vocabulary of the properties *)

\* the calls of submission s with the given operation, in order
CallsOf(s, op) == SelectSeq(calls[s], LAMBDA c : c.op = op)

\* the CRM calls of submission s, in order
CrmCalls(s) == SelectSeq(calls[s], LAMBDA c : c.op \in CrmOps)

OpsOf(cs) == [i \in DOMAIN cs |-> cs[i].op]

\* the submission passed the method, body and required-field tests
PassedValidation(s) ==
    /\ req[s].method = "POST"
    /\ req[s].bodyOk
    /\ req[s].Name # <<>>
    /\ req[s].Email # <<>>

\* createTwentyLead has returned to handleContact
Reconciled(s) == pc[s] \in {"email", "respond", "done"}

\* the call came back as a failure to its caller
SearchFailed(c) == c.outcome \in {"error", "undecodable"}
CreateFailed(c) == c.outcome \in {"error", "undecodable"}

\* the search found no existing record: it failed, or it answered with no edge
NoMatch(c) == SearchFailed(c) \/ c.edges = <<>>

\* the Mailgun send of submission s succeeded
EmailSent(s) == \E i \in DOMAIN calls[s] : calls[s][i].op = "MailgunSend" /\ calls[s][i].outcome = "ok"

-----------------------------------------------------------------------------
(* C1 *)

\* C1: a submission that passed validation is answered exactly once, with
\* success exactly when the Mailgun send succeeded; however reconciliation
\* ended (configuration missing, any CRM call failing, fatal person or
\* opportunity failure), sendNotificationEmail is reached, and with the
\* Mailgun configuration present the send is attempted exactly once.
C1_SuccessIffEmailSent ==
    \A s \in Subs :
        PassedValidation(s) =>
            /\ pc[s] \in {"respond", "done"} =>
                (~MailConfigMissing(env) => Len(CallsOf(s, "MailgunSend")) = 1)
            /\ pc[s] = "done" =>
                /\ Len(response[s]) = 1
                /\ response[s][1].Success <=> EmailSent(s)
            /\ Reconciled(s) /\ crmErr[s] # "" => lead[s].nil

\* a failed reconciliation, an email sent, and the success response
C1_Witness ==
    \E s \in Subs :
        /\ PassedValidation(s)
        /\ pc[s] = "done"
        /\ crmErr[s] = "failed to create opportunity"
        /\ EmailSent(s)
        /\ response[s][1].Success

-----------------------------------------------------------------------------
(* C2 *)

\* C2: when the person search found no existing person (empty or failed
\* search) and the person-create call failed, createTwentyLead has returned
\* an error and no LeadResult, and no opportunity-create call is ever made.
C2_PersonFailureIsFatal ==
    \A s \in Subs :
        LET find == CallsOf(s, "FindPerson")
            create == CallsOf(s, "CreatePerson")
        IN  (/\ Len(find) = 1 /\ NoMatch(find[1])
             /\ Len(create) = 1 /\ CreateFailed(create[1]))
            => /\ Reconciled(s)
               /\ lead[s].nil
               /\ crmErr[s] = "failed to find/create person"
               /\ CallsOf(s, "CreateOpportunity") = <<>>

\* a submission answered after a failed search and a failed person-create
C2_Witness ==
    \E s \in Subs :
        /\ pc[s] = "done"
        /\ Len(CallsOf(s, "FindPerson")) = 1
        /\ SearchFailed(CallsOf(s, "FindPerson")[1])
        /\ Len(CallsOf(s, "CreatePerson")) = 1
        /\ CreateFailed(CallsOf(s, "CreatePerson")[1])
        /\ lead[s].nil

-----------------------------------------------------------------------------
(* C3 *)

\* the person search matched, or the person-create call returned the new id
PersonCallSucceeded(s) ==
    \/ \E i \in DOMAIN calls[s] : calls[s][i].op = "FindPerson" /\ calls[s][i].edges # <<>>
    \/ \E i \in DOMAIN calls[s] : calls[s][i].op = "CreatePerson" /\ calls[s][i].outcome = "ok"

OpportunityCallSucceeded(s) ==
    \E i \in DOMAIN calls[s] : calls[s][i].op = "CreateOpportunity" /\ calls[s][i].outcome = "ok"

\* both company calls were made and both failed
CompanyCallsFailed(s) ==
    /\ req[s].Company # <<>>
    /\ \E i \in DOMAIN calls[s] : calls[s][i].op = "FindCompany" /\ SearchFailed(calls[s][i])
    /\ \E i \in DOMAIN calls[s] : calls[s][i].op = "CreateCompany" /\ CreateFailed(calls[s][i])

\* C3: with a company name supplied and both the company-search and the
\* company-create call failed, reconciliation goes on to the person search,
\* and to the opportunity-create call once a person is resolved; when the
\* person and opportunity calls succeed it returns a LeadResult with empty
\* CompanyID and non-empty PersonID and OpportunityID.
C3_CompanyFailureTolerated ==
    \A s \in Subs :
        CompanyCallsFailed(s) =>
            /\ pc[s] \notin {"companySearch", "companyCreate"}
            /\ crmErr[s] \in {"", "failed to find/create person", "failed to create opportunity"}
            /\ Reconciled(s) =>
                /\ Len(CallsOf(s, "FindPerson")) = 1
                /\ PersonCallSucceeded(s) => Len(CallsOf(s, "CreateOpportunity")) = 1
                /\ PersonCallSucceeded(s) /\ OpportunityCallSucceeded(s) =>
                    /\ ~lead[s].nil
                    /\ crmErr[s] = ""
                    /\ lead[s].CompanyID = ""
                    /\ lead[s].PersonID # ""
                    /\ lead[s].OpportunityID # ""

\* both company calls failed and a LeadResult without company came back
C3_Witness ==
    \E s \in Subs :
        /\ CompanyCallsFailed(s)
        /\ pc[s] = "done"
        /\ ~lead[s].nil
        /\ lead[s].CompanyID = ""
        /\ lead[s].PersonID # ""
        /\ lead[s].OpportunityID # ""

-----------------------------------------------------------------------------
(* C4 *)

\* C4: when the person search succeeded and returned at least one person,
\* reconciliation takes the id of the first returned person as PersonID with
\* IsNewPerson false (in the result it builds, in the opportunity it creates
\* and in the LeadResult it returns), and makes no person-create call.
C4_ExistingPersonReused ==
    \A s \in Subs :
        LET find == CallsOf(s, "FindPerson")
            opp == CallsOf(s, "CreateOpportunity")
        IN  (Len(find) = 1 /\ find[1].outcome = "ok" /\ find[1].edges # <<>>) =>
                /\ CallsOf(s, "CreatePerson") = <<>>
                /\ result[s].PersonID = find[1].edges[1]
                /\ ~result[s].IsNewPerson
                /\ \A i \in DOMAIN opp : opp[i].input.pointOfContactId = find[1].edges[1]
                /\ ~lead[s].nil => lead[s].PersonID = find[1].edges[1] /\ ~lead[s].IsNewPerson

\* two persons matched, and the LeadResult carries the first
C4_Witness ==
    \E s \in Subs :
        /\ pc[s] = "done"
        /\ Len(CallsOf(s, "FindPerson")) = 1
        /\ Len(CallsOf(s, "FindPerson")[1].edges) = 2
        /\ ~lead[s].nil
        /\ lead[s].PersonID = "p1"
        /\ ~lead[s].IsNewPerson

-----------------------------------------------------------------------------
(* C5 *)

\* the submission named a company, the CRM held no records, createTwentyLead
\* has returned and every CRM call it made came back with its record
EmptyCrmAllSucceeded(s) ==
    /\ PassedValidation(s)
    /\ req[s].Company # <<>>
    /\ ~ConfigMissing(env)
    /\ crm0 = EmptyCRM
    /\ Reconciled(s)
    /\ \A i \in DOMAIN calls[s] : calls[s][i].op \in CrmOps => calls[s][i].outcome = "ok"

\* C5: a submission with a company, against a CRM that held no records and
\* whose calls all succeed, makes exactly the five CRM calls company-search,
\* company-create, person-search, person-create, opportunity-create in this
\* order; person-create carries the normalized phone ("555-123-4567" goes
\* out as "+15551234567", no phone goes out as none); and the LeadResult
\* returned has CompanyID, PersonID and OpportunityID set and IsNewPerson true.
C5_EmptyCrmFiveCalls ==
    \A s \in Subs :
        EmptyCrmAllSucceeded(s) =>
            /\ OpsOf(CrmCalls(s)) = <<"FindCompany", "CreateCompany", "FindPerson",
                                     "CreatePerson", "CreateOpportunity">>
            /\ LET phone == CrmCalls(s)[4].input.primaryPhoneNumber IN
               /\ req[s].Phone = Phone_Dashed => phone = Phone_Normalized
               /\ req[s].Phone = <<>> => phone = <<>>
            /\ ~lead[s].nil
            /\ crmErr[s] = ""
            /\ lead[s].CompanyID # ""
            /\ lead[s].PersonID # ""
            /\ lead[s].OpportunityID # ""
            /\ lead[s].IsNewPerson

\* the end-to-end submission of Jane Doe of Acme, answered
C5_Witness ==
    \E s \in Subs :
        /\ EmptyCrmAllSucceeded(s)
        /\ pc[s] = "done"
        /\ req[s].Name = Name_JaneDoe
        /\ req[s].Phone = Phone_Dashed
        /\ Len(CrmCalls(s)) = 5
        /\ lead[s] = [nil |-> FALSE, PersonID |-> "p1", CompanyID |-> "c1",
                      OpportunityID |-> "o1", IsNewPerson |-> TRUE]

-----------------------------------------------------------------------------
(* C6 *)

\* the company of the LeadResult was matched or created by a company call
CompanyMatchedOrCreated(s) ==
    /\ req[s].Company # <<>>
    /\ \/ \E i \in DOMAIN calls[s] : calls[s][i].op = "FindCompany" /\ calls[s][i].edges # <<>>
       \/ \E i \in DOMAIN calls[s] : calls[s][i].op = "CreateCompany" /\ calls[s][i].outcome = "ok"

\* C6: whenever createTwentyLead returns a LeadResult and no error, PersonID
\* and OpportunityID are non-empty, whatever accepted response the CRM gave
\* (also one whose data carries no id), and CompanyID is non-empty only if a
\* company name was supplied and the company was matched or created.
C6_IdsPopulatedOnSuccess ==
    \A s \in Subs :
        (Reconciled(s) /\ crmErr[s] = "" /\ ~lead[s].nil) =>
            /\ lead[s].PersonID # ""
            /\ lead[s].OpportunityID # ""
            /\ lead[s].CompanyID # "" => CompanyMatchedOrCreated(s)

-----------------------------------------------------------------------------
(* C7 *)

\* findOrCreatePerson returned a person and no error
PersonResolvedOk(s) ==
    \/ \E i \in DOMAIN calls[s] : calls[s][i].op = "FindPerson" /\ calls[s][i].edges # <<>>
    \/ \E i \in DOMAIN calls[s] : calls[s][i].op = "CreatePerson" /\ ~CreateFailed(calls[s][i])

\* C7: once person resolution has yielded a person (matched or created),
\* whatever the company outcome was, the opportunity-create call is made
\* exactly once before createTwentyLead returns (and not before the person is
\* resolved); if that call fails, createTwentyLead returns an error and no
\* LeadResult, not a partial one.
C7_OpportunityAlwaysAttemptedAndFatal ==
    \A s \in Subs :
        LET opp == CallsOf(s, "CreateOpportunity") IN
        /\ PersonResolvedOk(s) =>
            /\ pc[s] = "opportunity" => opp = <<>>
            /\ Reconciled(s) => Len(opp) = 1
            /\ (Len(opp) = 1 /\ CreateFailed(opp[1])) =>
                /\ Reconciled(s)
                /\ lead[s].nil
                /\ crmErr[s] = "failed to create opportunity"
        /\ opp # <<>> => PersonResolvedOk(s)

\* the company calls failed, an existing person matched, the opportunity failed
C7_Witness ==
    \E s \in Subs :
        /\ pc[s] = "done"
        /\ CompanyCallsFailed(s)
        /\ \E i \in DOMAIN calls[s] : calls[s][i].op = "FindPerson" /\ calls[s][i].edges # <<>>
        /\ Len(CallsOf(s, "CreateOpportunity")) = 1
        /\ CreateFailed(CallsOf(s, "CreateOpportunity")[1])
        /\ lead[s].nil

-----------------------------------------------------------------------------
(* C8 *)

\* C8: a submission whose name or email is empty is answered once, with the
\* failure response of status 400, and no CRM call and no email send is ever
\* made for it.
C8_MissingFieldsRejected ==
    \A s \in Subs :
        (req[s].method = "POST" /\ req[s].bodyOk /\ (req[s].Name = <<>> \/ req[s].Email = <<>>)) =>
            /\ calls[s] = <<>>
            /\ ~mail[s].composed
            /\ pc[s] \in {"recv", "done"}
            /\ pc[s] = "done" =>
                /\ Len(response[s]) = 1
                /\ ~response[s][1].Success
                /\ response[s][1].status = 400

\* a submission with a name and no email, rejected
C8_Witness ==
    \E s \in Subs :
        /\ req[s].method = "POST" /\ req[s].bodyOk
        /\ req[s].Name = Name_JaneDoe
        /\ req[s].Email = <<>>
        /\ pc[s] = "done"
        /\ ~response[s][1].Success
        /\ calls[s] = <<>>

-----------------------------------------------------------------------------
(* C9 *)

\* C9: every submission for which a CRM call or an email send was made has
\* a name and an email that are non-empty after trimming whitespace.
C9_TrimmedNameAndEmailRequired ==
    \A s \in Subs :
        calls[s] # <<>> =>
            /\ TrimSpace(req[s].Name) # <<>>
            /\ TrimSpace(req[s].Email) # <<>>

-----------------------------------------------------------------------------
(* C10 *)

\* the status lines that assert a specific status
SpecificStatuses == {"New contact", "Existing contact (returning lead)"}

\* C10: a notification composed with no LeadResult (reconciliation failed)
\* carries no CRM link, and its status line asserts neither that the contact
\* is new nor that the contact is existing.
C10_AbsentLeadUnspecific ==
    \A s \in Subs :
        (mail[s].composed /\ lead[s].nil) =>
            /\ mail[s].crmLink = <<>>
            /\ mail[s].Status \notin SpecificStatuses

-----------------------------------------------------------------------------
(* C11 *)

\* C11: a notification composed with a LeadResult says "New contact" exactly
\* when IsNewPerson is true and "Existing contact (returning lead)" exactly
\* when it is false, and it carries the CRM link, made of the CRM base URL,
\* the path /objects/opportunities/ and the OpportunityID, if and only if
\* the OpportunityID is non-empty.
C11_StatusAndLinkFollowLead ==
    \A s \in Subs :
        (mail[s].composed /\ ~lead[s].nil) =>
            /\ mail[s].Status = "New contact" <=> lead[s].IsNewPerson
            /\ mail[s].Status = "Existing contact (returning lead)" <=> ~lead[s].IsNewPerson
            /\ mail[s].crmLink # <<>> <=> lead[s].OpportunityID # ""
            /\ lead[s].OpportunityID # "" =>
                /\ Len(mail[s].crmLink) = 4
                /\ mail[s].crmLink[2] = env.TWENTY_API_URL
                /\ mail[s].crmLink[3] = "/objects/opportunities/"
                /\ mail[s].crmLink[4] = lead[s].OpportunityID

\* a returning lead, told as existing, with the link to its opportunity
C11_Witness ==
    \E s \in Subs :
        /\ mail[s].composed
        /\ ~lead[s].nil
        /\ ~lead[s].IsNewPerson
        /\ mail[s].Status = "Existing contact (returning lead)"
        /\ mail[s].crmLink = <<"\n\nView in CRM: ", "https://crm.example", "/objects/opportunities/", "o1">>

-----------------------------------------------------------------------------
(* C12 *)

\* D: the digits of the text in order, every other character removed
DigitsOf(text) == SelectSeq(text, LAMBDA c : c \in {"0", "1", "2", "3", "4", "5", "6", "7", "8", "9"})

\* C12: for every phone text, with D its digits in order, normalizePhone
\* returns the empty string if D has fewer than 10 digits, "+1" D if D has
\* exactly 10 digits, "+" D if D has 11 digits and starts with "1", and
\* "+" D in every other case.
C12_NormalizePhoneByDigitCount ==
    (calc.fn = "normalizePhone" /\ calc.done) =>
        LET D == DigitsOf(calc.arg) IN
        /\ Len(D) < 10 => calc.out = <<>>
        /\ Len(D) = 10 => calc.out = <<"+", "1">> \o D
        /\ (Len(D) = 11 /\ D[1] = "1") => calc.out = <<"+">> \o D
        /\ (Len(D) > 10 /\ ~(Len(D) = 11 /\ D[1] = "1")) => calc.out = <<"+">> \o D

\* ten digits with a separator among them, normalized with the "+1" prefix
C12_Witness ==
    /\ calc.fn = "normalizePhone" /\ calc.done
    /\ Len(calc.arg) = 11
    /\ Len(DigitsOf(calc.arg)) = 10
    /\ calc.out = <<"+", "1">> \o DigitsOf(calc.arg)

-----------------------------------------------------------------------------
(* C13 *)

IsSpaceChar(c) == c \in {" ", "\t", "\n", "\r"}

\* the text without its leading whitespace
RECURSIVE SkipSpace(_)
SkipSpace(text) ==
    IF text # <<>> /\ IsSpaceChar(Head(text)) THEN SkipSpace(Tail(text)) ELSE text

\* the leading characters of the text up to its first whitespace character
RECURSIVE LeadingToken(_)
LeadingToken(text) ==
    IF text = <<>> \/ IsSpaceChar(Head(text)) THEN <<>>
    ELSE <<Head(text)>> \o LeadingToken(Tail(text))

\* the first whitespace-delimited token of a name
FirstToken(name) == LeadingToken(SkipSpace(name))

\* what follows the first token and the whitespace after it, up to the last
\* character of the name that is not whitespace
RECURSIVE DropTrailingSpace(_)
DropTrailingSpace(text) ==
    IF text # <<>> /\ IsSpaceChar(text[Len(text)])
    THEN DropTrailingSpace(SubSeq(text, 1, Len(text) - 1))
    ELSE text

Remainder(name) ==
    LET body == SkipSpace(name)
        rest == SubSeq(body, Len(LeadingToken(body)) + 1, Len(body))
    IN  DropTrailingSpace(SkipSpace(rest))

\* C13: for every submitted name, the first name is the first
\* whitespace-delimited token of the name and the last name is the remainder
\* after that token (empty for a single-token name), whichever whitespace
\* characters and however many of them separate the tokens.
C13_NameSplitOnWhitespace ==
    (calc.fn = "parseName" /\ calc.done) =>
        /\ calc.out.firstName = FirstToken(calc.arg)
        /\ SkipSpace(calc.out.lastName) = Remainder(calc.arg)

-----------------------------------------------------------------------------
(* C14 *)

\* C14: the opportunity sent to opportunity-create is named by the submitter
\* name as submitted, then " - ", then the service interest when that is
\* non-empty and "Website Inquiry" when it is empty; its stage is "NEW".
C14_OpportunityNameAndStage ==
    \A s \in Subs :
        \A i \in DOMAIN calls[s] :
            calls[s][i].op = "CreateOpportunity" =>
                LET n == calls[s][i].input.name
                    k == Len(req[s].Name)
                    tail == IF req[s].Service # <<>> THEN req[s].Service
                            ELSE <<"W", "e", "b", "s", "i", "t", "e", " ", "I", "n", "q", "u", "i", "r", "y">>
                IN  /\ calls[s][i].input.stage = "NEW"
                    /\ Len(n) = k + 3 + Len(tail)
                    /\ SubSeq(n, 1, k) = req[s].Name
                    /\ SubSeq(n, k + 1, k + 3) = <<" ", "-", " ">>
                    /\ SubSeq(n, k + 4, Len(n)) = tail

\* Jane Doe with no service interest: "Jane Doe - Website Inquiry" is sent
C14_Witness ==
    \E s \in Subs :
        \E i \in DOMAIN calls[s] :
            /\ calls[s][i].op = "CreateOpportunity"
            /\ req[s].Service = <<>>
            /\ calls[s][i].input.name = <<"J", "a", "n", "e", " ", "D", "o", "e", " ", "-", " ", "W", "e", "b", "s", "i", "t", "e", " ", "I", "n", "q", "u", "i", "r", "y">>
            /\ calls[s][i].input.stage = "NEW"

-----------------------------------------------------------------------------
(* C15 *)

\* the step of the pipeline a call belongs to
Phase(op) ==
    CASE op \in {"FindCompany", "CreateCompany"} -> 1
      [] op \in {"FindPerson", "CreatePerson"} -> 2
      [] op = "CreateOpportunity" -> 3
      [] op = "MailgunSend" -> 4

\* the calls of a log go through the phases in order
InPhaseOrder(cs) == \A i, j \in DOMAIN cs : i < j => Phase(cs[i].op) <= Phase(cs[j].op)

\* a step of submission s: it makes at most one call, which is made and
\* answered within the step; the email send is made from the position after
\* createTwentyLead has returned; a response is written in a step that makes
\* no call, and for a validated submission only once sendNotificationEmail
\* has returned
SequentialStep(s) ==
    /\ Len(calls'[s]) <= Len(calls[s]) + 1
    /\ SubSeq(calls'[s], 1, Len(calls[s])) = calls[s]
    /\ InPhaseOrder(calls'[s])
    /\ (Len(calls'[s]) > Len(calls[s]) /\ calls'[s][Len(calls'[s])].op = "MailgunSend") =>
            pc[s] = "email" /\ pc'[s] = "respond"
    /\ response'[s] # response[s] =>
        /\ calls'[s] = calls[s]
        /\ pc'[s] = "done"
        /\ PassedValidation(s) =>
            /\ pc[s] = "respond"
            /\ ~MailConfigMissing(env) => calls[s][Len(calls[s])].op = "MailgunSend"

\* C15: within one submission the external calls are made one at a time and
\* in order: company calls before person calls, person calls before the
\* opportunity call, the email send only after the last CRM call has
\* returned, the response only after the email send has returned; each call
\* has returned before the handler takes its next step, so no two calls of
\* one submission are in flight at once.
C15_CallsSequentialInOrder == [][\A s \in Subs : SequentialStep(s)]_vars

\* a submission answered after all six calls, each in its turn
C15_Witness ==
    \E s \in Subs :
        /\ pc[s] = "done"
        /\ OpsOf(calls[s]) = <<"FindCompany", "CreateCompany", "FindPerson", "CreatePerson",
                               "CreateOpportunity", "MailgunSend">>
        /\ Len(response[s]) = 1

-----------------------------------------------------------------------------
(* C16 *)

\* the create call that follows a search
CreateAfter(op) == IF op = "FindCompany" THEN "CreateCompany" ELSE "CreatePerson"

\* the handler's position between a search and its create call
CreatePending(op) == IF op = "FindCompany" THEN "companyCreate" ELSE "personCreate"

\* the i-th call of submission s is followed by the create call of its
\* find-or-create: already in the log, or the very next step of the handler
FollowedByCreate(s, i) ==
    IF i < Len(calls[s])
    THEN calls[s][i + 1].op = CreateAfter(calls[s][i].op)
    ELSE pc[s] = CreatePending(calls[s][i].op)

\* C16: in company and in person resolution a search call that failed
\* (transport failure, non-success status, GraphQL error, undecodable
\* payload) is followed by the same step as a search that succeeded with no
\* match: the corresponding create call; reconciliation is never aborted
\* between a failed search and its create call.
C16_FailedSearchFallsThroughToCreate ==
    \A s \in Subs : \A i \in DOMAIN calls[s] :
        LET c == calls[s][i]
        IN  (c.op \in {"FindCompany", "FindPerson"} /\ (SearchFailed(c) \/ c.edges = <<>>)) =>
                /\ FollowedByCreate(s, i)
                /\ crmErr[s] = "" \/ Len(calls[s]) > i

\* both searches failed, one by transport and one by payload, and both
\* creates were made
C16_Witness ==
    \E s \in Subs :
        /\ Len(calls[s]) >= 4
        /\ calls[s][1].op = "FindCompany" /\ calls[s][1].outcome = "error"
        /\ calls[s][2].op = "CreateCompany"
        /\ calls[s][3].op = "FindPerson" /\ calls[s][3].outcome = "undecodable"
        /\ calls[s][4].op = "CreatePerson"

-----------------------------------------------------------------------------
(* C17 *)

\* the company search of submission s succeeded with at least one company
CompanyMatched(c) == c.op = "FindCompany" /\ c.outcome = "ok" /\ c.edges # <<>>

\* C17: when the company search succeeds with one or more companies, the id
\* of the first of them in the order the CRM returned them is the CompanyID
\* of the reconciliation, no company-create call is made, and that id is the
\* companyId of the person-create call (if one is made) and of the
\* opportunity-create call.
C17_FirstCompanyUsedEverywhere ==
    \A s \in Subs : \A i \in DOMAIN calls[s] :
        CompanyMatched(calls[s][i]) =>
            LET first == calls[s][i].edges[1]
            IN  /\ result[s].CompanyID = first
                /\ CallsOf(s, "CreateCompany") = <<>>
                /\ \A j \in DOMAIN calls[s] :
                        calls[s][j].op \in {"CreatePerson", "CreateOpportunity"} =>
                            calls[s][j].input.companyId = first
                /\ lead[s] # NilLead => lead[s].CompanyID = first

\* two companies matched; the person and the opportunity were created with
\* the id of the first
C17_Witness ==
    \E s \in Subs :
        /\ Len(calls[s]) >= 4
        /\ CompanyMatched(calls[s][1]) /\ Len(calls[s][1].edges) = 2
        /\ calls[s][3].op = "CreatePerson"
        /\ calls[s][3].input.companyId = calls[s][1].edges[1]
        /\ calls[s][4].op = "CreateOpportunity"
        /\ calls[s][4].input.companyId = calls[s][1].edges[1]

-----------------------------------------------------------------------------
(* C18 *)

LowerStr(t) == [i \in DOMAIN t |-> Lower(t[i])]

\* a and b are equal ignoring case
EqualFold(a, b) == LowerStr(a) = LowerStr(b)

\* part occurs in text, ignoring case
ContainsFold(text, part) ==
    \E i \in 0..(Len(text) - Len(part)) :
        LowerStr(SubSeq(text, i + 1, i + Len(part))) = LowerStr(part)

HasWildcard(t) == \E i \in DOMAIN t : t[i] \in {"%", "_"}

\* the call a step of submission s adds to its log, if it adds one
Added(s) == Len(calls'[s]) > Len(calls[s])
NewCall(s) == calls'[s][Len(calls'[s])]

\* a step in which the person search of s is answered: the edges are the
\* persons of the CRM, in its order, whose email is in relation Match to
\* the supplied one
PersonSearchMatches(s, Match(_, _)) ==
    (Added(s) /\ NewCall(s).op = "FindPerson" /\ NewCall(s).outcome = "ok"
              /\ ~HasWildcard(req[s].Email)) =>
        NewCall(s).edges = Ids(SelectSeq(crm.people, LAMBDA r : Match(r.email, req[s].Email)))

\* the same for the company search and the company name
CompanySearchMatches(s, Match(_, _)) ==
    (Added(s) /\ NewCall(s).op = "FindCompany" /\ NewCall(s).outcome = "ok"
              /\ ~HasWildcard(req[s].Company)) =>
        NewCall(s).edges = Ids(SelectSeq(crm.companies, LAMBDA r : Match(r.name, req[s].Company)))

-----------------------------------------------------------------------------
(* C19 *)

\* C19: no external call is retried: on every path a submission issues each
\* of the five CRM operations at most once and the email send at most once,
\* so it causes at most five CRM calls in all.
C19_NoCallRetried ==
    \A s \in Subs :
        /\ \A op \in CrmOps \cup {"MailgunSend"} : Len(CallsOf(s, op)) <= 1
        /\ Len(CrmCalls(s)) <= 5
        /\ Len(calls[s]) <= 6

\* a finished submission none of whose calls came back with what it asked
\* for: each of the six was still made only once
C19_Witness ==
    \E s \in Subs :
        /\ pc[s] = "done"
        /\ Len(CrmCalls(s)) = 5
        /\ Len(CallsOf(s, "MailgunSend")) = 1
        /\ \A i \in DOMAIN calls[s] : calls[s][i].outcome # "ok"

-----------------------------------------------------------------------------
(* C20 *)

\* the persons and companies of the CRM that the searches of s look for
PeopleFor(s) == SelectSeq(crm.people, LAMBDA r : EqualFold(r.email, req[s].Email))
CompaniesFor(s) == SelectSeq(crm.companies, LAMBDA r : ContainsFold(r.name, req[s].Company))

\* the submissions that made the call op
Callers(op) == {s \in Subs : \E i \in DOMAIN calls[s] : calls[s][i].op = op}

\* a step of s that is an answered search: with a matching record in the CRM
\* at that moment, whoever created it, s takes the first and goes on without
\* a create call; with none, s goes on to the create call
SearchStep(s, find, rows, create) ==
    (Added(s) /\ NewCall(s).op = find /\ NewCall(s).outcome = "ok") =>
        IF rows # <<>>
        THEN /\ NewCall(s).edges = Ids(rows)
             /\ pc'[s] # create
        ELSE /\ NewCall(s).edges = <<>>
             /\ pc'[s] = create

\* a step of s that is a create call: the search of s, its last call, found
\* nothing, and that is all s looks at
CreateStep(s, find, create) ==
    (Added(s) /\ NewCall(s).op = create) =>
        /\ calls[s] # <<>>
        /\ calls[s][Len(calls[s])].op = find
        /\ NoMatch(calls[s][Len(calls[s])])

\* C20: two submissions for the same email (and company name), served at
\* once against a CRM without a matching record, are not coordinated: each
\* creates whenever its own search found nothing, so both can create and
\* leave two records. A search that is answered after the other
\* submission's record was stored finds it and reuses it, so served one
\* after the other by a CRM that answers they leave one person record.
C20_DuplicatesOnlyWhenSearchesRace ==
    [][\A s \in Subs :
        /\ SearchStep(s, "FindPerson", PeopleFor(s), "personCreate")
        /\ SearchStep(s, "FindCompany", CompaniesFor(s), "companyCreate")
        /\ CreateStep(s, "FindPerson", "CreatePerson")
        /\ CreateStep(s, "FindCompany", "CreateCompany")
        /\ (Added(s) /\ NewCall(s).op = "FindPerson" /\ PeopleFor(s) # <<>>
                     /\ NewCall(s).outcome = "ok") =>
                /\ result'[s].PersonID = PeopleFor(s)[1].id
                /\ ~result'[s].IsNewPerson
                /\ crm' = crm]_vars

\* both submissions are answered; both searches of each were answered with
\* no match, both created, and the CRM holds two persons with the one email
\* and two companies with the one name
C20_Witness ==
    /\ crm0 = EmptyCRM
    /\ \A s \in Subs :
        /\ pc[s] = "done"
        /\ req[s].Company = Company_Acme
        /\ \A i \in DOMAIN calls[s] :
                calls[s][i].op \in {"FindPerson", "FindCompany"} =>
                    calls[s][i].outcome = "ok" /\ calls[s][i].edges = <<>>
        /\ Len(PeopleFor(s)) = 2
        /\ Len(CompaniesFor(s)) = 2
    /\ Callers("CreatePerson") = Subs
    /\ Callers("CreateCompany") = Subs

-----------------------------------------------------------------------------
(* C21 *)

\* C21: every submission the handler received is eventually answered, and
\* never twice, whatever the CRM calls and the email send come back with,
\* given that every call returns.
C21_EveryRequestAnsweredOnce ==
    \A s \in Subs :
        /\ (pc[s] = "recv") ~> (pc[s] = "done" /\ Len(response[s]) = 1)
        /\ [](Len(response[s]) <= 1)

\* a submission answered once after reconciliation and the email send both
\* failed
C21_Witness ==
    \E s \in Subs :
        /\ pc[s] = "done"
        /\ crmErr[s] # ""
        /\ CrmCalls(s) # <<>>
        /\ mailErr[s] # ""
        /\ Len(response[s]) = 1

-----------------------------------------------------------------------------
(* C22 *)

\* the create calls, of any submission, that the CRM carried out
Stored(op) ==
    {c \in UNION {{calls[s][i] : i \in DOMAIN calls[s]} : s \in Subs} :
        c.op = op /\ Accepted(c.outcome)}

\* the number of create calls op the CRM carried out
StoredCount(op) ==
    Cardinality({p \in UNION {{<<s, i>> : i \in DOMAIN calls[s]} : s \in Subs} :
                    /\ calls[p[1]][p[2]].op = op
                    /\ Accepted(calls[p[1]][p[2]].outcome)})

\* the record r is what the create call c asked for
CompanyOf(c, r) == r.name = c.input.name /\ (c.outcome = "ok" => r.id = c.id)

PersonOf(c, r) ==
    /\ r.firstName = c.input.firstName /\ r.lastName = c.input.lastName
    /\ r.email = c.input.primaryEmail /\ r.phone = c.input.primaryPhoneNumber
    /\ r.companyId = c.input.companyId
    /\ c.outcome = "ok" => r.id = c.id

OpportunityOf(c, r) ==
    /\ [k \in DOMAIN c.input |-> r[k]] = c.input
    /\ c.outcome = "ok" => r.id = c.id

\* now is before followed by one record for each create call op that the
\* CRM carried out, and by nothing else
GrownBy(before, now, op, RecordOf(_, _)) ==
    /\ Len(now) = Len(before) + StoredCount(op)
    /\ SubSeq(now, 1, Len(before)) = before
    /\ \A i \in (Len(before) + 1)..Len(now) : \E c \in Stored(op) : RecordOf(c, now[i])
    /\ \A c \in Stored(op) : \E i \in (Len(before) + 1)..Len(now) : RecordOf(c, now[i])

\* C22: reconciliation takes no CRM write back: at every moment, and so
\* after a fatal person or opportunity failure, the CRM holds what it held
\* before the submission followed by one record for every create call the
\* CRM carried out, the company and the person of the failed reconciliation
\* included.
C22_NoCrmWriteUndone ==
    /\ GrownBy(crm0.companies, crm.companies, "CreateCompany", CompanyOf)
    /\ GrownBy(crm0.people, crm.people, "CreatePerson", PersonOf)
    /\ GrownBy(crm0.opportunities, crm.opportunities, "CreateOpportunity", OpportunityOf)

\* the opportunity call failed and ended reconciliation; the company and the
\* person created before it are still in the CRM
C22_Witness ==
    \E s \in Subs :
        /\ pc[s] = "done"
        /\ crmErr[s] = "failed to create opportunity"
        /\ \E i \in DOMAIN calls[s] : calls[s][i].op = "CreateCompany" /\ calls[s][i].outcome = "ok"
        /\ \E i \in DOMAIN calls[s] : calls[s][i].op = "CreatePerson" /\ calls[s][i].outcome = "ok"
        /\ \E i \in DOMAIN calls[s] : calls[s][i].op = "CreateOpportunity" /\ calls[s][i].outcome = "error"
        /\ Len(crm.companies) = Len(crm0.companies) + 1
        /\ Len(crm.people) = Len(crm0.people) + 1
        /\ crm.opportunities = crm0.opportunities

-----------------------------------------------------------------------------
(* C23 *)

\* the person search of submission s matched an existing person
PersonMatched(c) == c.op = "FindPerson" /\ c.outcome = "ok" /\ c.edges # <<>>

\* now is before, or before followed by one more record
AtMostOneAdded(before, now) ==
    /\ Len(now) <= Len(before) + 1
    /\ SubSeq(now, 1, Len(before)) = before

\* C23: when the person search matches an existing person, every person and
\* company record the CRM held stays as it was: the matched person keeps its
\* name, phone and company link, also when a company was matched or created
\* for the submission; no person is created, and the submission adds at
\* most one company and one opportunity.
C23_MatchedPersonLeftUnchanged ==
    \A s \in Subs : \A i \in DOMAIN calls[s] :
        PersonMatched(calls[s][i]) =>
            /\ crm.people = crm0.people
            /\ \E j \in DOMAIN crm0.people :
                    /\ crm0.people[j].id = calls[s][i].edges[1]
                    /\ crm.people[j] = crm0.people[j]
            /\ CallsOf(s, "CreatePerson") = <<>>
            /\ AtMostOneAdded(crm0.companies, crm.companies)
            /\ AtMostOneAdded(crm0.opportunities, crm.opportunities)

\* a company was created for the submission and the opportunity carries it,
\* while the matched person still has no company and its own name
C23_Witness ==
    \E s \in Subs : \E i \in DOMAIN calls[s] :
        /\ PersonMatched(calls[s][i])
        /\ pc[s] = "done"
        /\ Len(crm.companies) = Len(crm0.companies) + 1
        /\ Len(crm.opportunities) = Len(crm0.opportunities) + 1
        /\ result[s].CompanyID # ""
        /\ crm.opportunities[Len(crm.opportunities)].companyId = result[s].CompanyID
        /\ \E j \in DOMAIN crm.people :
                /\ crm.people[j].id = result[s].PersonID
                /\ crm.people[j].companyId = ""
                /\ crm.people[j].firstName # names[s].firstName

====
